---- MODULE Spec2Model ----
(***************************************************************************)
(* Model of the GEX/DEX analytics of src/gex_calculator.py and of the      *)
(* dashboard's use of it in src/streamlit_app.py.                          *)
(*                                                                         *)
(* Numbers.  The program computes in binary floating point; here every     *)
(* real quantity is a fixed-point integer:                                 *)
(*   prices (futures_ltp, strike as passed to the Greeks)  1/PriceScale    *)
(*   volatility as a fraction (sigma)                      1/SigmaScale    *)
(*   provider implied volatility, in percent               1/IVScale       *)
(*   time to expiry in years (T), rate r                   1/TimeScale,    *)
(*                                                         1/SigmaScale    *)
(*   d1                                                    1/1000          *)
(*   gamma, normal density                                 1/1000000       *)
(*   delta, normal distribution function                   1/DeltaScale    *)
(*   GEX / DEX columns (billions)                          1/ExpScale      *)
(* Divisions truncate toward zero (TDiv).  numpy's log and sqrt and        *)
(* scipy's norm.pdf / norm.cdf are library functions; they are evaluated   *)
(* by the rational approximations Ln, Sqrt, NormPdf and NormCdf.           *)
(***************************************************************************)
EXTENDS Integers, Sequences, FiniteSets, TLC

VARIABLES
    request,    \* (symbol, strikes_range, expiry_index) chosen in the sidebar
    now,        \* datetime.now(): day number and whether it is past midnight
    pc,         \* where the dashboard run is: start, fetching, returned, stopped, displayed
    attempt,    \* attempts of fetch_and_calculate_gex_dex started so far
    last_error, \* last_error of fetch_and_calculate_gex_dex
    chain,      \* the records payload the successful attempt was computed from
    result,     \* what fetch_data returned: (df, futures_ltp, fetch_method, atm_info, error)
    shown,      \* what the main analysis computed and displayed
    table,      \* a table handed to detect_gamma_flip_zones directly
    zones,      \* what detect_gamma_flip_zones returned for table
    bs_in,      \* arguments (S, K, T, r, sigma) of a BlackScholesCalculator call
    bs_out,     \* what calculate_gamma / _call_delta / _put_delta returned for bs_in
    flow_in,    \* with table, the arguments of the analysis calls: is df None, futures_ltp
    flow,       \* what calculate_dual_gex_dex_flow returned
    calls,      \* the analysis calls made so far on the table, in order
    session,    \* number of requests.Session objects created so far; the latest is in use
    previous,   \* an earlier run of fetch_and_calculate_gex_dex with the same arguments
    tte_call    \* the latest call of calculate_time_to_expiry: argument, today, result

vars == <<request, now, pc, attempt, last_error, chain, result, shown,
          table, zones, bs_in, bs_out, flow_in, flow, calls,
          session, previous, tte_call>>

----------------------------------------------------------------------------
(* Fixed-point scales *)

PriceScale == 1000
SigmaScale == 10000
IVScale    == 100
TimeScale  == 1000000
DeltaScale == 1000
ExpScale   == 1000

\* Not-a-number / infinity, as numpy produces for log of a non-positive
\* ratio, sqrt of a negative number, or a division by a zero float.
Undefined == -2000000000

\* A ZeroDivisionError raised inside a try block, before the except catches it.
Raised == Undefined - 1

\* d1 = -inf, from np.log(0 / K).
NegInf == Undefined - 2

Abs(x) == IF x < 0 THEN -x ELSE x

Max2(a, b) == IF a >= b THEN a ELSE b

\* Division truncating toward zero, symmetric in the sign of the numerator.
TDiv(a, b) ==
    IF b = 0 THEN Undefined
    ELSE IF (a >= 0) = (b > 0) THEN Abs(a) \div Abs(b)
    ELSE -(Abs(a) \div Abs(b))

\* np.sqrt on a non-negative fixed-point value n: the integer square root,
\* found by bisection between lo and hi (lo * lo <= n < hi * hi).
RECURSIVE SqrtBetween(_, _, _)
SqrtBetween(n, lo, hi) ==
    IF hi - lo <= 1 THEN lo
    ELSE LET mid == (lo + hi) \div 2
         IN  IF mid * mid <= n THEN SqrtBetween(n, mid, hi)
             ELSE SqrtBetween(n, lo, mid)

Sqrt(n) == SqrtBetween(n, 0, 46341)

\* np.log(S / K) for S, K of the same sign, in 1/TimeScale units:
\* ln(S/K) = 2 atanh((S-K)/(S+K)), first term of the series.
Ln(S, K) == TDiv((S - K) * 2000, TDiv(S + K, 1000))

\* scipy.stats.norm.pdf at 0, 0.5, ..., 5.0, in 1/GammaScale units.
PdfTable == <<398942, 352065, 241971, 129518, 53991, 17528, 4432, 873, 134, 16, 1>>

\* scipy.stats.norm.cdf at 0, 0.5, ..., 5.0, in 1/DeltaScale units.
CdfTable == <<500, 691, 841, 933, 977, 994, 999, 1000, 1000, 1000, 1000>>

\* |d1| from which the float density underflows to exactly 0.
PdfUnderflow == 38600

Interpolate(tbl, a) ==
    LET i == a \div 500
        f == a % 500
    IN  tbl[i + 1] + TDiv((tbl[i + 2] - tbl[i + 1]) * f, 500)

NormPdf(d) ==
    LET a == Abs(d)
    IN  IF a >= PdfUnderflow THEN 0
        ELSE IF a >= 5000 THEN 1
        ELSE Max2(1, Interpolate(PdfTable, a))

NormCdf(d) ==
    LET a == Abs(d)
        up == IF a >= 5000 THEN DeltaScale ELSE Interpolate(CdfTable, a)
    IN  IF d >= 0 THEN up ELSE DeltaScale - up

----------------------------------------------------------------------------
(* BlackScholesCalculator *)

\* sigma * sqrt(T), in 1/10^7 units.
SigmaSqrtT(T, sigma) == sigma * Sqrt(T)

calculate_d1(S, K, T, r, sigma) ==
    IF T <= 0 \/ sigma <= 0 THEN 0
    ELSE LET drift == TDiv((r + TDiv(sigma * sigma, 2 * SigmaScale)) * T, SigmaScale)
         IN  TDiv((Ln(S, K) + drift) * 10000, SigmaSqrtT(T, sigma))

\* What the body of a Greek's try block sees of d1: Raised when S / K
\* divides by zero (caught by the bare except), NegInf for the log of 0,
\* Undefined for the log of a negative ratio, the value otherwise.
D1Outcome(S, K, T, r, sigma) ==
    IF T <= 0 \/ sigma <= 0 THEN 0
    ELSE IF K = 0 THEN Raised
    ELSE IF S = 0 THEN NegInf
    ELSE IF (S > 0) # (K > 0) THEN Undefined
    ELSE calculate_d1(S, K, T, r, sigma)

\* The try block of calculate_gamma (lines 29-32).
GammaBody(S, K, T, r, sigma) ==
    LET d1 == D1Outcome(S, K, T, r, sigma)
        den == TDiv(TDiv(S, PriceScale) * TDiv(SigmaSqrtT(T, sigma), 10), 100000)
    IN  IF d1 = Raised THEN 0
        ELSE IF d1 \in {Undefined, NegInf} \/ den = 0 THEN Undefined
        ELSE TDiv(NormPdf(d1) * 10, den)

calculate_gamma_no_price_guard(S, K, T, r, sigma) ==
    IF T <= 0 \/ sigma <= 0 THEN 0 ELSE GammaBody(S, K, T, r, sigma)

calculate_gamma(S, K, T, r, sigma) ==
    IF T <= 0 \/ sigma <= 0 \/ S <= 0 \/ K <= 0 THEN 0
    ELSE GammaBody(S, K, T, r, sigma)

\* The try block of calculate_call_delta (lines 41-42).
CallDeltaBody(S, K, T, r, sigma) ==
    LET d1 == D1Outcome(S, K, T, r, sigma)
    IN  IF d1 = Raised THEN 0
        ELSE IF d1 = Undefined THEN Undefined
        ELSE IF d1 = NegInf THEN 0
        ELSE NormCdf(d1)

calculate_call_delta(S, K, T, r, sigma) ==
    IF T <= 0 \/ sigma <= 0 \/ S <= 0 \/ K <= 0 THEN 0
    ELSE CallDeltaBody(S, K, T, r, sigma)

\* The try block of calculate_put_delta (lines 51-52).
PutDeltaBody(S, K, T, r, sigma) ==
    LET d1 == D1Outcome(S, K, T, r, sigma)
    IN  IF d1 = Raised THEN 0
        ELSE IF d1 = Undefined THEN Undefined
        ELSE IF d1 = NegInf THEN -DeltaScale
        ELSE NormCdf(d1) - DeltaScale

calculate_put_delta(S, K, T, r, sigma) ==
    IF T <= 0 \/ sigma <= 0 \/ S <= 0 \/ K <= 0 THEN 0
    ELSE PutDeltaBody(S, K, T, r, sigma)

----------------------------------------------------------------------------
(* EnhancedGEXDEXCalculator: constants and small helpers *)

max_retries == 3

\* self.risk_free_rate = 0.07, in 1/SigmaScale units.
risk_free_rate == 700

\* The volatility used when the provider's IV is missing or zero: 0.15.
DefaultSigma == 1500

\* The floor of time_to_expiry: 0.001 years.
MinTimeToExpiry == 1000

\* futures_ltp = spot_price * 1.002, spot in whole units, futures in 1/PriceScale.
FuturesFactor == 1002

\* float('inf'), the initial min_atm_diff.
Inf == 2000000000

None == "None"

contract_size(symbol) ==
    CASE symbol = "BANKNIFTY" -> 15
      [] symbol = "FINNIFTY" -> 40
      [] symbol = "MIDCPNIFTY" -> 75
      [] OTHER -> 25

strike_interval(symbol) ==
    CASE symbol = "BANKNIFTY" -> 100
      [] symbol = "FINNIFTY" -> 50
      [] symbol = "MIDCPNIFTY" -> 25
      [] OTHER -> 50

\* datetime.strptime(s, "%d-%b-%Y") as a day number (days after 31-Oct-2026);
\* Raised (ValueError) for a string that is not in that format.
strptime(s) ==
    CASE s = "29-Oct-2026" -> -2
      [] s = "05-Nov-2026" -> 5
      [] s = "12-Nov-2026" -> 12
      [] s = "26-Nov-2026" -> 26
      [] OTHER -> Raised

\* Lines 144-153 without the max(..., 0.001) of line 150.
calculate_time_to_expiry_unfloored(expiry_date_str, today) ==
    LET expiry_date == strptime(expiry_date_str)
    IN  IF expiry_date = Raised
        THEN [time_to_expiry |-> TDiv(7 * TimeScale, 365), days_to_expiry |-> 7]
        ELSE LET days_to_expiry ==
                     (expiry_date - today.day) - (IF today.past_midnight THEN 1 ELSE 0)
             IN  [time_to_expiry |-> TDiv(days_to_expiry * TimeScale, 365),
                  days_to_expiry |-> days_to_expiry]

\* today is datetime.now(): [day, past_midnight].  timedelta.days floors, so
\* any time of day past midnight takes one day off the difference.
calculate_time_to_expiry(expiry_date_str, today) ==
    LET expiry_date == strptime(expiry_date_str)
    IN  IF expiry_date = Raised
        THEN [time_to_expiry |-> TDiv(7 * TimeScale, 365), days_to_expiry |-> 7]
        ELSE LET days_to_expiry ==
                     (expiry_date - today.day) - (IF today.past_midnight THEN 1 ELSE 0)
             IN  [time_to_expiry |->
                      Max2(TDiv(days_to_expiry * TimeScale, 365), MinTimeToExpiry),
                  days_to_expiry |-> days_to_expiry]

\* (oi * gamma * futures_ltp * futures_ltp * contract_size) / 1_000_000_000
GexOf(oi, gamma, futures_ltp, size) ==
    LET f == TDiv(futures_ltp, PriceScale)
        per_contract == TDiv(TDiv(gamma * size, 100) * TDiv(f * f, 100000), 10000)
    IN  TDiv(oi * per_contract, 10)

\* (oi * delta * futures_ltp * contract_size) / 1_000_000_000
DexOf(oi, delta, futures_ltp, size) ==
    LET f == TDiv(futures_ltp, PriceScale)
    IN  TDiv(TDiv(delta * size * f, 1000) * oi, 1000000)

\* call_iv / 100 if call_iv > 0 else 0.15
iv_decimal(iv) == IF iv > 0 THEN TDiv(iv * SigmaScale, 100 * IVScale) ELSE DefaultSigma

\* strike_distance > strikes_range, with
\* strike_distance = abs(strike - futures_ltp) / strike_interval (exact).
OutsideRange_exclusive(strike, futures_ltp, interval, strikes_range) ==
    Abs(strike * PriceScale - futures_ltp) >= strikes_range * interval * PriceScale

OutsideRange(strike, futures_ltp, interval, strikes_range) ==
    Abs(strike * PriceScale - futures_ltp) > strikes_range * interval * PriceScale

----------------------------------------------------------------------------
(* fetch_and_calculate_gex_dex: one option-chain record (lines 270-374) *)

call_gex(call_oi, call_gamma, futures_ltp, size) ==
    GexOf(call_oi, call_gamma, futures_ltp, size)

put_gex_unsigned(put_oi, put_gamma, futures_ltp, size) ==
    GexOf(put_oi, put_gamma, futures_ltp, size)

put_gex(put_oi, put_gamma, futures_ltp, size) ==
    -GexOf(put_oi, put_gamma, futures_ltp, size)

call_dex(call_oi, call_delta, futures_ltp, size) ==
    DexOf(call_oi, call_delta, futures_ltp, size)

put_dex(put_oi, put_delta, futures_ltp, size) ==
    DexOf(put_oi, put_delta, futures_ltp, size)

call_flow_gex(call_oi_change, call_gamma, futures_ltp, size) ==
    GexOf(call_oi_change, call_gamma, futures_ltp, size)

put_flow_gex(put_oi_change, put_gamma, futures_ltp, size) ==
    -GexOf(put_oi_change, put_gamma, futures_ltp, size)

call_flow_dex(call_oi_change, call_delta, futures_ltp, size) ==
    DexOf(call_oi_change, call_delta, futures_ltp, size)

put_flow_dex(put_oi_change, put_delta, futures_ltp, size) ==
    DexOf(put_oi_change, put_delta, futures_ltp, size)

\* The dict appended to all_strikes for an in-range record (lines 287-374).
\* ctx holds the attempt's selected_expiry, futures_ltp, time_to_expiry,
\* contract_size, strike_interval and strikes_range.
StrikeRow(item, ctx) ==
    LET strike == item.strikePrice
        ce == item.CE
        pe == item.PE
        S == ctx.futures_ltp
        K == strike * PriceScale
        T == ctx.time_to_expiry
        size == ctx.contract_size
        call_iv_decimal == iv_decimal(ce.impliedVolatility)
        put_iv_decimal == iv_decimal(pe.impliedVolatility)
        call_gamma == calculate_gamma(S, K, T, risk_free_rate, call_iv_decimal)
        put_gamma == calculate_gamma(S, K, T, risk_free_rate, put_iv_decimal)
        call_delta == calculate_call_delta(S, K, T, risk_free_rate, call_iv_decimal)
        put_delta == calculate_put_delta(S, K, T, risk_free_rate, put_iv_decimal)
        cg == call_gex(ce.openInterest, call_gamma, S, size)
        pg == put_gex(pe.openInterest, put_gamma, S, size)
        cd == call_dex(ce.openInterest, call_delta, S, size)
        pd == put_dex(pe.openInterest, put_delta, S, size)
        cfg == call_flow_gex(ce.changeinOpenInterest, call_gamma, S, size)
        pfg == put_flow_gex(pe.changeinOpenInterest, put_gamma, S, size)
        cfd == call_flow_dex(ce.changeinOpenInterest, call_delta, S, size)
        pfd == put_flow_dex(pe.changeinOpenInterest, put_delta, S, size)
    IN  [Strike |-> strike,
         Call_OI |-> ce.openInterest, Put_OI |-> pe.openInterest,
         Call_OI_Change |-> ce.changeinOpenInterest,
         Put_OI_Change |-> pe.changeinOpenInterest,
         Call_Volume |-> ce.totalTradedVolume, Put_Volume |-> pe.totalTradedVolume,
         Call_IV |-> ce.impliedVolatility, Put_IV |-> pe.impliedVolatility,
         Call_LTP |-> ce.lastPrice, Put_LTP |-> pe.lastPrice,
         Call_Gamma |-> call_gamma, Put_Gamma |-> put_gamma,
         Call_Delta |-> call_delta, Put_Delta |-> put_delta,
         Call_GEX |-> cg, Put_GEX |-> pg, Net_GEX |-> cg + pg,
         Call_DEX |-> cd, Put_DEX |-> pd, Net_DEX |-> cd + pd,
         Call_Flow_GEX |-> cfg, Put_Flow_GEX |-> pfg, Net_Flow_GEX |-> cfg + pfg,
         Call_Flow_DEX |-> cfd, Put_Flow_DEX |-> pfd, Net_Flow_DEX |-> cfd + pfd]

\* The loop's state before the first record (lines 257-262); raised is the
\* message of the exception that left the loop, None while there is none.
LoopStart ==
    [all_strikes |-> <<>>, processed_strikes |-> {}, atm_strike |-> None,
     min_atm_diff |-> Inf, atm_call_premium |-> 0, atm_put_premium |-> 0,
     raised |-> None]

\* A JSON object is a record of its keys; a JSON value that is not an object
\* (a string, a number, a non-empty list) is written [json |-> its kind].
IsDict(v) == "json" \notin DOMAIN v

\* A JSON string where a number is expected.
NonNumeric == Undefined - 3

\* d.get(key, default)
Get(d, key, default) == IF key \in DOMAIN d THEN d[key] ELSE default

\* {}: the dict without keys.
EmptyDict == [k \in {} |-> 0]

QuoteKeys ==
    {"openInterest", "changeinOpenInterest", "totalTradedVolume",
     "impliedVolatility", "lastPrice"}

\* Lines 290-299: the ten values read from ce or pe, 0 for an absent key.
Fields(side) == [k \in QuoteKeys |-> Get(side, k, 0)]

\* Line 278 with the duplicate test left out.
skip_strike_zero_only(strike, processed_strikes) == strike = 0

\* Line 278: strike == 0 or strike in processed_strikes.
skip_strike(strike, processed_strikes) ==
    strike = 0 \/ strike \in processed_strikes

\* The exception lines 287-344 raise on an in-range record, None when they
\* raise none: .get on a CE or PE that is no dict (lines 290-291), the
\* comparison of a string IV with 0 (lines 309-310), the product of a string
\* open interest or change with a float (lines 334-344).
RecordRaises(item) ==
    LET ce == Get(item, "CE", EmptyDict)
        pe == Get(item, "PE", EmptyDict)
    IN  IF ~IsDict(ce) THEN "'" \o ce.json \o "' object has no attribute 'get'"
        ELSE IF ~IsDict(pe) THEN "'" \o pe.json \o "' object has no attribute 'get'"
        ELSE IF \/ Get(ce, "impliedVolatility", 0) = NonNumeric
                \/ Get(pe, "impliedVolatility", 0) = NonNumeric
        THEN "'>' not supported between instances of 'str' and 'int'"
        ELSE IF \E side \in {ce, pe} :
                    \/ Get(side, "openInterest", 0) = NonNumeric
                    \/ Get(side, "changeinOpenInterest", 0) = NonNumeric
        THEN "can't multiply sequence by non-int of type 'float'"
        ELSE None

\* One iteration of "for item in option_data" (lines 270-374).
\* A record that is no dict is passed over (line 271); an exception leaves
\* the loop for the except branch of lines 418-422: the subtraction of
\* line 283 on a string strike, or one of RecordRaises.
ProcessItem(item, acc, ctx) ==
    IF acc.raised # None \/ ~IsDict(item) THEN acc
    ELSE IF /\ ctx.selected_expiry # ""
            /\ Get(item, "expiryDate", None) # ctx.selected_expiry
    THEN acc
    ELSE
    LET strike == Get(item, "strikePrice", 0)
    IN  IF skip_strike(strike, acc.processed_strikes) THEN acc
        ELSE LET seen == [acc EXCEPT !.processed_strikes = @ \cup {strike}]
                 strike_diff == Abs(strike * PriceScale - ctx.futures_ltp)
                 closer == strike_diff < acc.min_atm_diff
                 record == [strikePrice |-> strike,
                            CE |-> Fields(Get(item, "CE", EmptyDict)),
                            PE |-> Fields(Get(item, "PE", EmptyDict))]
             IN  IF strike = NonNumeric
                 THEN [seen EXCEPT !.raised =
                          "unsupported operand type(s) for -: 'str' and 'float'"]
                 ELSE IF OutsideRange(strike, ctx.futures_ltp, ctx.strike_interval,
                                      ctx.strikes_range)
                 THEN seen
                 ELSE IF RecordRaises(item) # None
                 THEN [seen EXCEPT !.raised = RecordRaises(item)]
                 ELSE [seen EXCEPT
                         !.min_atm_diff = IF closer THEN strike_diff ELSE @,
                         !.atm_strike = IF closer THEN strike ELSE @,
                         !.atm_call_premium = IF closer THEN record.CE.lastPrice ELSE @,
                         !.atm_put_premium = IF closer THEN record.PE.lastPrice ELSE @,
                         !.all_strikes = Append(@, StrikeRow(record, ctx))]

RECURSIVE ProcessItems(_, _, _)
ProcessItems(option_data, acc, ctx) ==
    IF option_data = <<>> THEN acc
    ELSE ProcessItems(Tail(option_data), ProcessItem(Head(option_data), acc, ctx), ctx)

----------------------------------------------------------------------------
(* fetch_and_calculate_gex_dex: the DataFrame (lines 381-403) *)

\* The index of a row of smallest Strike.
RECURSIVE MinStrikeIndex(_, _, _)
MinStrikeIndex(rows, i, best) ==
    IF i > Len(rows) THEN best
    ELSE MinStrikeIndex(rows, i + 1,
                        IF rows[i].Strike < rows[best].Strike THEN i ELSE best)

RemoveAt(rows, i) == SubSeq(rows, 1, i - 1) \o SubSeq(rows, i + 1, Len(rows))

\* df.sort_values('Strike').reset_index(drop=True)
\* The table left in the order it came in.
sort_values_unsorted(rows) == rows

RECURSIVE sort_values(_)
sort_values(rows) ==
    IF rows = <<>> THEN <<>>
    ELSE LET i == MinStrikeIndex(rows, 1, 1)
         IN  <<rows[i]>> \o sort_values(RemoveAt(rows, i))

WithBColumns_net_of_calls(row) ==
    [Call_GEX_B |-> row.Call_GEX, Put_GEX_B |-> row.Put_GEX,
     Net_GEX_B |-> row.Call_GEX,
     Call_DEX_B |-> row.Call_DEX, Put_DEX_B |-> row.Put_DEX,
     Net_DEX_B |-> row.Net_DEX,
     Call_Flow_GEX_B |-> row.Call_Flow_GEX, Put_Flow_GEX_B |-> row.Put_Flow_GEX,
     Net_Flow_GEX_B |-> row.Net_Flow_GEX,
     Call_Flow_DEX_B |-> row.Call_Flow_DEX, Put_Flow_DEX_B |-> row.Put_Flow_DEX,
     Net_Flow_DEX_B |-> row.Net_Flow_DEX,
     Total_Volume |-> row.Call_Volume + row.Put_Volume] @@ row

\* Lines 384-396: the _B copies and Total_Volume of one row.
WithBColumns(row) ==
    [Call_GEX_B |-> row.Call_GEX, Put_GEX_B |-> row.Put_GEX,
     Net_GEX_B |-> row.Net_GEX,
     Call_DEX_B |-> row.Call_DEX, Put_DEX_B |-> row.Put_DEX,
     Net_DEX_B |-> row.Net_DEX,
     Call_Flow_GEX_B |-> row.Call_Flow_GEX, Put_Flow_GEX_B |-> row.Put_Flow_GEX,
     Net_Flow_GEX_B |-> row.Net_Flow_GEX,
     Call_Flow_DEX_B |-> row.Call_Flow_DEX, Put_Flow_DEX_B |-> row.Put_Flow_DEX,
     Net_Flow_DEX_B |-> row.Net_Flow_DEX,
     Total_Volume |-> row.Call_Volume + row.Put_Volume] @@ row

\* df['Net_GEX_B'].abs().max()
RECURSIVE MaxAbsNetGex(_)
MaxAbsNetGex(rows) ==
    IF rows = <<>> THEN 0
    ELSE Max2(Abs(Head(rows).Net_GEX_B), MaxAbsNetGex(Tail(rows)))

hedging_pressure_unguarded(net_gex_b, max_net_gex) ==
    TDiv(net_gex_b * 100, max_net_gex)

\* Lines 399-403, for one row: (Net_GEX_B / max_net_gex) * 100, in percent.
hedging_pressure(net_gex_b, max_net_gex) ==
    IF max_net_gex > 0 THEN TDiv(net_gex_b * 100, max_net_gex) ELSE 0

\* Lines 381-403.
DataFrame(all_strikes) ==
    LET sorted == sort_values(all_strikes)
        withB == [i \in 1..Len(sorted) |-> WithBColumns(sorted[i])]
        max_net_gex == MaxAbsNetGex(withB)
    IN  [i \in 1..Len(withB) |->
            [Hedging_Pressure |-> hedging_pressure(withB[i].Net_GEX_B, max_net_gex)]
                @@ withB[i]]

----------------------------------------------------------------------------
(* fetch_and_calculate_gex_dex: one attempt (the body of the for loop) *)

\* A provider response is [kind |-> k] for a failure of the session or of the
\* request, or [kind |-> "ok", underlyingValue, expiryDates, data]: the
\* decoded JSON's records.  An item of data is
\* [expiryDate, strikePrice, CE, PE], CE and PE being
\* [openInterest, changeinOpenInterest, totalTradedVolume, impliedVolatility,
\*  lastPrice]; a field the provider leaves out reads as 0.  A record may
\* lack keys, be no object at all, or carry a string where a number belongs.

\* last_error for a response that never reaches the records (lines 166-221,
\* and the except branch of lines 418-419 for a raised exception).
RequestError(kind) ==
    CASE kind = "session_fail" ->
            "Session initialization failed - NSE may be blocking access"
      [] kind = "http401" -> "Unauthorized (401) - Session expired"
      [] kind = "http403" ->
            "Forbidden (403) - IP may be blocked by NSE. Try during market hours or use VPN"
      [] kind = "http500" -> "HTTP 500 - NSE API returned error"
      [] kind = "bad_json" -> "Invalid JSON response from NSE API"
      [] kind = "api_error" -> "NSE API Error: rate limited"
      [] kind = "no_records" ->
            "Invalid API response - missing 'records'. This may be due to market hours or access restrictions"
      [] kind = "records_not_dict" -> "Invalid data format from NSE API"
      [] kind = "raises" -> "Connection timed out"

Failed(msg) ==
    [ok |-> FALSE, last_error |-> msg, df |-> <<>>, futures_ltp |-> 0,
     atm_info |-> [atm_strike |-> 0, atm_call_premium |-> 0, atm_put_premium |-> 0,
                   atm_straddle_premium |-> 0]]

\* expiry_dates[expiry_index] if expiry_index < len(expiry_dates) else
\* expiry_dates[0]; a negative index counts from the end of the list, and
\* raises IndexError (Raised) when it reaches before its start.
select_expiry(expiry_dates, expiry_index) ==
    IF expiry_index < Len(expiry_dates)
    THEN IF expiry_index >= 0 THEN expiry_dates[expiry_index + 1]
         ELSE IF Len(expiry_dates) + expiry_index >= 0
              THEN expiry_dates[Len(expiry_dates) + expiry_index + 1]
              ELSE None
    ELSE expiry_dates[1]

\* self.session left as it is.
create_session_reused(current) == current

\* _create_session (lines 71-85): self.session = requests.Session(), a new
\* object each time; sessions are numbered in the order of their creation.
create_session(current) == current + 1

\* No call of calculate_time_to_expiry yet.
NoExpiry == [date |-> None]

\* Line 237: the call of calculate_time_to_expiry an attempt makes once it
\* has selected the expiry; an attempt that fails earlier leaves the
\* latest call as it was.
time_to_expiry_call(resp, req, today, latest) ==
    IF /\ resp.kind = "ok"
       /\ resp.underlyingValue # 0
       /\ resp.expiryDates # <<>>
       /\ select_expiry(resp.expiryDates, req.expiry_index) # None
    THEN LET date == select_expiry(resp.expiryDates, req.expiry_index)
             tte == calculate_time_to_expiry(date, today)
         IN  [date |-> date, today |-> today,
              time_to_expiry |-> tte.time_to_expiry,
              days_to_expiry |-> tte.days_to_expiry]
    ELSE latest

\* Lines 405-413 with the straddle premium taken from the call alone.
atm_info_of_call_only(acc) ==
    [atm_strike |-> acc.atm_strike,
     atm_call_premium |-> acc.atm_call_premium,
     atm_put_premium |-> acc.atm_put_premium,
     atm_straddle_premium |-> acc.atm_call_premium]

\* Lines 405-413: atm_info from what the loop tracked.
atm_info_of(acc) ==
    [atm_strike |-> acc.atm_strike,
     atm_call_premium |-> acc.atm_call_premium,
     atm_put_premium |-> acc.atm_put_premium,
     atm_straddle_premium |-> acc.atm_call_premium + acc.atm_put_premium]

\* Lines 161-416: what one pass through the loop body yields: the values of
\* the success return, or the last_error it sets before "continue".
RunAttempt(resp, req, today) ==
    IF resp.kind # "ok" THEN Failed(RequestError(resp.kind))
    ELSE IF resp.underlyingValue = 0
    THEN Failed("No market data available - check if market is open")
    ELSE IF resp.expiryDates = <<>> THEN Failed("No expiry dates available")
    ELSE IF select_expiry(resp.expiryDates, req.expiry_index) = None
    THEN Failed("list index out of range")
    ELSE IF resp.data = <<>> THEN Failed("No option chain data available")
    ELSE
    LET selected_expiry == select_expiry(resp.expiryDates, req.expiry_index)
        tte == calculate_time_to_expiry(selected_expiry, today)
        futures_ltp == resp.underlyingValue * FuturesFactor
        ctx == [selected_expiry |-> selected_expiry,
                futures_ltp |-> futures_ltp,
                time_to_expiry |-> tte.time_to_expiry,
                contract_size |-> contract_size(req.symbol),
                strike_interval |-> strike_interval(req.symbol),
                strikes_range |-> req.strikes_range]
        acc == ProcessItems(resp.data, LoopStart, ctx)
    IN  IF acc.raised # None THEN Failed(acc.raised)
        ELSE IF acc.all_strikes = <<>>
        THEN Failed("No strikes found within range " \o ToString(req.strikes_range))
        ELSE [ok |-> TRUE, last_error |-> "",
              df |-> DataFrame(acc.all_strikes),
              futures_ltp |-> futures_ltp,
              atm_info |-> atm_info_of(acc)]

----------------------------------------------------------------------------
(* detect_gamma_flip_zones (lines 572-605) *)

\* flip_strike is kept in 1/FlipScale of a strike unit, weight in 1/WeightScale.
FlipScale == 100
WeightScale == 1000

IsFlip_nonstrict(current_gex, next_gex) ==
    (current_gex >= 0 /\ next_gex < 0) \/ (current_gex <= 0 /\ next_gex > 0)

\* Line 584.
IsFlip(current_gex, next_gex) ==
    (current_gex > 0 /\ next_gex < 0) \/ (current_gex < 0 /\ next_gex > 0)

flip_strike_by_next(lower, upper, current_gex, next_gex) ==
    lower * FlipScale
        + TDiv((upper - lower)
                 * TDiv(Abs(next_gex) * WeightScale, Abs(current_gex) + Abs(next_gex))
                 * FlipScale, WeightScale)

\* Lines 588-592.
flip_strike(lower, upper, current_gex, next_gex) ==
    IF Abs(current_gex) + Abs(next_gex) > 0
    THEN LET weight == TDiv(Abs(current_gex) * WeightScale,
                            Abs(current_gex) + Abs(next_gex))
         IN  lower * FlipScale + TDiv((upper - lower) * weight * FlipScale, WeightScale)
    ELSE TDiv((lower + upper) * FlipScale, 2)

\* Line 594.
flip_type(current_gex) ==
    IF current_gex > 0 THEN "Positive to Negative" ELSE "Negative to Positive"

\* The loop of lines 580-603 from row i of the sorted table on.
RECURSIVE ZonesFrom(_, _)
ZonesFrom(df_sorted, i) ==
    IF i >= Len(df_sorted) THEN <<>>
    ELSE LET current_gex == df_sorted[i].Net_GEX_B
             next_gex == df_sorted[i + 1].Net_GEX_B
         IN  (IF IsFlip(current_gex, next_gex)
              THEN <<[flip_strike |-> flip_strike(df_sorted[i].Strike,
                                                  df_sorted[i + 1].Strike,
                                                  current_gex, next_gex),
                      lower_strike |-> df_sorted[i].Strike,
                      upper_strike |-> df_sorted[i + 1].Strike,
                      flip_type |-> flip_type(current_gex),
                      lower_gex |-> current_gex,
                      upper_gex |-> next_gex]>>
              ELSE <<>>) \o ZonesFrom(df_sorted, i + 1)

\* The call raises KeyError: the table has rows and Net_GEX_B but no Strike
\* to sort by (line 578).  The argument is the pair (df_is_none, df).
detect_raises(df_is_none, df) ==
    /\ ~df_is_none
    /\ Len(df) > 0
    /\ "Net_GEX_B" \in DOMAIN df[1]
    /\ "Strike" \notin DOMAIN df[1]

\* Lines 572-605, for a call that does not raise.
detect_gamma_flip_zones(df_is_none, df) ==
    IF df_is_none \/ Len(df) = 0 \/ "Net_GEX_B" \notin DOMAIN df[1] THEN <<>>
    ELSE ZonesFrom(sort_values(df), 1)

----------------------------------------------------------------------------
(* The dashboard run: fetch_data and the main analysis (streamlit_app.py) *)

Sum(f, S) ==
    LET RECURSIVE Go(_)
        Go(T) == IF T = {} THEN 0
                 ELSE LET x == CHOOSE y \in T : TRUE IN f[x] + Go(T \ {x})
    IN  Go(S)

ColumnSum(df, col) == Sum([i \in 1..Len(df) |-> df[i][col]], 1..Len(df))

default_atm_info ==
    [atm_strike |-> 0, atm_call_premium |-> 0, atm_put_premium |-> 0,
     atm_straddle_premium |-> 0]

\* pd.DataFrame() without the columns argument.
get_empty_dataframe_bare == [columns |-> {}, rows |-> <<>>]

\* _get_empty_dataframe (lines 87-103): no rows, all the columns.
get_empty_dataframe ==
    [columns |->
        {"Strike", "Call_OI", "Put_OI", "Call_OI_Change", "Put_OI_Change",
         "Call_Volume", "Put_Volume", "Call_IV", "Put_IV", "Call_LTP", "Put_LTP",
         "Call_Gamma", "Put_Gamma", "Call_Delta", "Put_Delta",
         "Call_GEX", "Put_GEX", "Net_GEX", "Call_DEX", "Put_DEX", "Net_DEX",
         "Call_Flow_GEX", "Put_Flow_GEX", "Net_Flow_GEX",
         "Call_Flow_DEX", "Put_Flow_DEX", "Net_Flow_DEX",
         "Call_GEX_B", "Put_GEX_B", "Net_GEX_B",
         "Call_DEX_B", "Put_DEX_B", "Net_DEX_B",
         "Call_Flow_GEX_B", "Put_Flow_GEX_B", "Net_Flow_GEX_B",
         "Call_Flow_DEX_B", "Put_Flow_DEX_B", "Net_Flow_DEX_B",
         "Total_Volume", "Hedging_Pressure"},
     rows |-> <<>>]

NoResult ==
    [is_none |-> TRUE, df |-> <<>>, columns |-> {}, futures_ltp |-> 0,
     fetch_method |-> None, atm_info |-> default_atm_info, error |-> None]

NoChain == [kind |-> "none"]

NothingShown ==
    [error |-> None, total_gex |-> 0, call_gex |-> 0, put_gex |-> 0,
     total_gex_delta |-> None, gamma_flip_zones |-> <<>>]

----------------------------------------------------------------------------
(* calculate_dual_gex_dex_flow *)

\* A DataFrame argument is the pair (df_is_none, df): whether the caller
\* passed None, and otherwise the rows; the columns of a table with rows
\* are the fields of its rows.  Net_GEX_B and Net_DEX_B are in 1/ExpScale
\* of a billion, futures_ltp in 1/PriceScale.
Columns(df) == IF Len(df) = 0 THEN {} ELSE DOMAIN df[1]

\* head(5) of lines 475 and 480, head(5) / tail(5) of lines 495-496.
NearCount == 5

\* The thresholds of get_gex_bias and get_dex_bias: 50 (billions).
BiasThreshold == 50 * ExpScale

\* The values of the return statement of lines 444-468.
no_data_flow ==
    [gex_near_positive |-> 0, gex_near_negative |-> 0, gex_near_total |-> 0,
     gex_near_bias |-> "NO DATA", gex_near_color |-> "gray",
     gex_total_positive |-> 0, gex_total_negative |-> 0, gex_total_all |-> 0,
     gex_total_bias |-> "NO DATA", gex_total_color |-> "gray",
     dex_near_positive |-> 0, dex_near_negative |-> 0, dex_near_total |-> 0,
     dex_near_bias |-> "NO DATA", dex_near_color |-> "gray",
     dex_total_positive |-> 0, dex_total_negative |-> 0, dex_total_all |-> 0,
     dex_total_bias |-> "NO DATA", dex_total_color |-> "gray",
     combined_signal |-> 0, combined_bias |-> "NO DATA", combined_color |-> "gray"]

\* df.drop_duplicates(subset=['Strike']): the first row of each strike.
RECURSIVE drop_duplicates(_, _)
drop_duplicates(df, seen) ==
    IF df = <<>> THEN <<>>
    ELSE IF Head(df).Strike \in seen THEN drop_duplicates(Tail(df), seen)
    ELSE <<Head(df)>> \o drop_duplicates(Tail(df), seen \cup {Head(df).Strike})

\* abs(Strike - futures_ltp), the Distance column of lines 474 and 479.
DistanceTo(row, futures_ltp) == Abs(row.Strike * PriceScale - futures_ltp)

RECURSIVE MinDistanceIndex(_, _, _, _)
MinDistanceIndex(rows, futures_ltp, i, best) ==
    IF i > Len(rows) THEN best
    ELSE MinDistanceIndex(rows, futures_ltp, i + 1,
             IF DistanceTo(rows[i], futures_ltp) < DistanceTo(rows[best], futures_ltp)
             THEN i ELSE best)

\* sort_values('Distance'); rows at the same distance keep their order (the
\* tables below hold no two rows of one sign at the same distance on either
\* side of the cut).
RECURSIVE sort_by_distance(_, _)
sort_by_distance(rows, futures_ltp) ==
    IF rows = <<>> THEN <<>>
    ELSE LET i == MinDistanceIndex(rows, futures_ltp, 1, 1)
         IN  <<rows[i]>> \o sort_by_distance(RemoveAt(rows, i), futures_ltp)

head(rows, n) == SubSeq(rows, 1, IF Len(rows) < n THEN Len(rows) ELSE n)

tail(rows, n) == SubSeq(rows, IF Len(rows) < n THEN 1 ELSE Len(rows) - n + 1, Len(rows))

\* Lines 472-480 with .head(5) left out.
nearest_of_sign_uncut(df_unique, futures_ltp, sign) ==
    LET signed_df == SelectSeq(df_unique,
                               LAMBDA row : IF sign > 0 THEN row.Net_GEX_B > 0
                                            ELSE row.Net_GEX_B < 0)
    IN  sort_by_distance(signed_df, futures_ltp)

\* Lines 472-480: the rows of one sign, cut to the NearCount nearest.
nearest_of_sign(df_unique, futures_ltp, sign) ==
    LET signed_df == SelectSeq(df_unique,
                               LAMBDA row : IF sign > 0 THEN row.Net_GEX_B > 0
                                            ELSE row.Net_GEX_B < 0)
    IN  head(sort_by_distance(signed_df, futures_ltp), NearCount)

\* Lines 495-496.
above_futures(df_unique, futures_ltp) ==
    head(SelectSeq(df_unique, LAMBDA row : row.Strike * PriceScale > futures_ltp),
         NearCount)

below_futures(df_unique, futures_ltp) ==
    tail(SelectSeq(df_unique, LAMBDA row : row.Strike * PriceScale < futures_ltp),
         NearCount)

\* The sum of col over the rows of df whose col is positive (sign > 0) or
\* negative (lines 486-490 and 502-506).
SignedColumnSum(df, col, sign) ==
    ColumnSum(SelectSeq(df, LAMBDA row : IF sign > 0 THEN row[col] > 0
                                         ELSE row[col] < 0), col)

get_gex_bias_inclusive(flow_value) ==
    IF flow_value >= BiasThreshold
    THEN <<"STRONG BULLISH (Sideways to Bullish)", "green">>
    ELSE IF flow_value > 0 THEN <<"BULLISH (Sideways to Bullish)", "lightgreen">>
    ELSE IF flow_value <= -BiasThreshold THEN <<"HIGH VOLATILITY (Strong)", "red">>
    ELSE IF flow_value < 0 THEN <<"HIGH VOLATILITY", "lightcoral">>
    ELSE <<"NEUTRAL", "orange">>

\* Lines 510-520.
get_gex_bias(flow_value) ==
    IF flow_value > BiasThreshold
    THEN <<"STRONG BULLISH (Sideways to Bullish)", "green">>
    ELSE IF flow_value > 0 THEN <<"BULLISH (Sideways to Bullish)", "lightgreen">>
    ELSE IF flow_value < -BiasThreshold THEN <<"HIGH VOLATILITY (Strong)", "red">>
    ELSE IF flow_value < 0 THEN <<"HIGH VOLATILITY", "lightcoral">>
    ELSE <<"NEUTRAL", "orange">>

get_dex_bias_zero_is_mild(flow_value) ==
    IF flow_value > BiasThreshold THEN <<"BULLISH", "green">>
    ELSE IF flow_value < -BiasThreshold THEN <<"BEARISH", "red">>
    ELSE IF flow_value >= 0 THEN <<"Mild Bullish", "lightgreen">>
    ELSE <<"Mild Bearish", "lightcoral">>

\* Lines 522-532.
get_dex_bias(flow_value) ==
    IF flow_value > BiasThreshold THEN <<"BULLISH", "green">>
    ELSE IF flow_value < -BiasThreshold THEN <<"BEARISH", "red">>
    ELSE IF flow_value > 0 THEN <<"Mild Bullish", "lightgreen">>
    ELSE IF flow_value < 0 THEN <<"Mild Bearish", "lightcoral">>
    ELSE <<"NEUTRAL", "orange">>

\* The call raises KeyError: the table has rows and Net_GEX_B, but no Strike
\* (line 470) or no Net_DEX_B (line 498 or 502).
flow_raises(df_is_none, df) ==
    /\ ~df_is_none
    /\ Len(df) > 0
    /\ "Net_GEX_B" \in Columns(df)
    /\ ("Strike" \notin Columns(df) \/ "Net_DEX_B" \notin Columns(df))

\* Lines 439-566, for a call that does not raise.
calculate_dual_gex_dex_flow(df_is_none, df, futures_ltp) ==
    IF df_is_none \/ Len(df) = 0 \/ "Net_GEX_B" \notin Columns(df) THEN no_data_flow
    ELSE
    LET df_unique == sort_values(drop_duplicates(df, {}))
        positive_gex_df == nearest_of_sign(df_unique, futures_ltp, 1)
        negative_gex_df == nearest_of_sign(df_unique, futures_ltp, -1)
        gex_near_positive == ColumnSum(positive_gex_df, "Net_GEX_B")
        gex_near_negative == ColumnSum(negative_gex_df, "Net_GEX_B")
        gex_near_total == gex_near_positive + gex_near_negative
        gex_total_positive == SignedColumnSum(df_unique, "Net_GEX_B", 1)
        gex_total_negative == SignedColumnSum(df_unique, "Net_GEX_B", -1)
        gex_total_all == gex_total_positive + gex_total_negative
        dex_near_positive ==
            ColumnSum(above_futures(df_unique, futures_ltp), "Net_DEX_B")
        dex_near_negative ==
            ColumnSum(below_futures(df_unique, futures_ltp), "Net_DEX_B")
        dex_near_total == dex_near_positive + dex_near_negative
        dex_total_positive == SignedColumnSum(df_unique, "Net_DEX_B", 1)
        dex_total_negative == SignedColumnSum(df_unique, "Net_DEX_B", -1)
        dex_total_all == dex_total_positive + dex_total_negative
        combined_signal == TDiv(gex_near_total + dex_near_total, 2)
    IN  [gex_near_positive |-> gex_near_positive,
         gex_near_negative |-> gex_near_negative,
         gex_near_total |-> gex_near_total,
         gex_near_bias |-> get_gex_bias(gex_near_total)[1],
         gex_near_color |-> get_gex_bias(gex_near_total)[2],
         gex_total_positive |-> gex_total_positive,
         gex_total_negative |-> gex_total_negative,
         gex_total_all |-> gex_total_all,
         gex_total_bias |-> get_gex_bias(gex_total_all)[1],
         gex_total_color |-> get_gex_bias(gex_total_all)[2],
         dex_near_positive |-> dex_near_positive,
         dex_near_negative |-> dex_near_negative,
         dex_near_total |-> dex_near_total,
         dex_near_bias |-> get_dex_bias(dex_near_total)[1],
         dex_near_color |-> get_dex_bias(dex_near_total)[2],
         dex_total_positive |-> dex_total_positive,
         dex_total_negative |-> dex_total_negative,
         dex_total_all |-> dex_total_all,
         dex_total_bias |-> get_dex_bias(dex_total_all)[1],
         dex_total_color |-> get_dex_bias(dex_total_all)[2],
         combined_signal |-> combined_signal,
         combined_bias |-> get_gex_bias(combined_signal)[1],
         combined_color |-> get_gex_bias(combined_signal)[2]]

df_after_flow_inplace(df) ==
    IF Len(df) = 0 \/ "Strike" \notin Columns(df) THEN df
    ELSE sort_values(drop_duplicates(df, {}))

\* The caller's table after calculate_dual_gex_dex_flow: drop_duplicates,
\* sort_values and the boolean selections return new frames, and Distance
\* is added to a .copy() (lines 470-480).
df_after_flow(df) == df

\* The caller's table after detect_gamma_flip_zones: sort_values returns a
\* new frame (line 578).
df_after_detect(df) == df

\* No flow metrics yet, and no arguments of an analysis call.
NoFlow == [computed |-> FALSE]

NoFlowCall == [df_is_none |-> FALSE, futures_ltp |-> 0]

\* No earlier run.
NoPrevious == [done |-> FALSE]

\* fetch_data, line 169: the calculator is constructed (its __init__ creates
\* a session, line 69) and the call starts.
BeginFetch ==
    /\ pc = "start"
    /\ pc' = "fetching"
    /\ attempt' = 0
    /\ last_error' = None
    /\ session' = create_session(session)
    /\ UNCHANGED <<request, now, chain, result, shown, table, zones, bs_in, bs_out,
                   flow_in, flow, calls, previous, tte_call>>

\* fetch_data, lines 176-177: an exception escapes and is returned as error.
FetchDataException ==
    /\ pc = "start"
    /\ pc' = "returned"
    /\ result' = [NoResult EXCEPT !.error = "Connection pool is closed"]
    /\ UNCHANGED <<request, now, attempt, last_error, chain, shown, table, zones,
                   bs_in, bs_out,
                   flow_in, flow, calls,
                   session, previous, tte_call>>

\* One iteration of the retry loop of fetch_and_calculate_gex_dex on the
\* response resp, begun with a new session (line 163); the last failed
\* iteration falls through to the return of lines 424-433, a successful one
\* returns at line 416.  fetch_data hands
\* the tuple on with error = None (line 175).
Attempt(resp) ==
    /\ pc = "fetching"
    /\ attempt < max_retries
    /\ \E out \in {RunAttempt(resp, request, now)} :
           /\ attempt' = attempt + 1
           /\ IF out.ok
              THEN /\ pc' = "returned"
                   /\ last_error' = None
                   /\ chain' = resp
                   /\ result' = [is_none |-> FALSE, df |-> out.df,
                                 columns |-> Columns(out.df),
                                 futures_ltp |-> out.futures_ltp,
                                 fetch_method |-> "NSE Live",
                                 atm_info |-> out.atm_info, error |-> None]
              ELSE /\ last_error' = out.last_error
                   /\ chain' = chain
                   /\ IF attempt + 1 = max_retries
                      THEN /\ pc' = "returned"
                           /\ result' = [is_none |-> FALSE,
                                         df |-> get_empty_dataframe.rows,
                                         columns |-> get_empty_dataframe.columns,
                                         futures_ltp |-> 0,
                                         fetch_method |-> "Error: " \o out.last_error,
                                         atm_info |-> default_atm_info,
                                         error |-> None]
                      ELSE UNCHANGED <<pc, result>>
    /\ session' = create_session(session)
    /\ tte_call' = time_to_expiry_call(resp, request, now, tte_call)
    /\ UNCHANGED <<request, now, shown, table, zones, bs_in, bs_out,
                   flow_in, flow, calls, previous>>

\* Lines 211-263 of the dashboard: stop on an error, otherwise compute the
\* flow metrics and the flip zones from df and display the key metrics.
MainAnalysis ==
    /\ pc = "returned"
    /\ IF result.error # None /\ result.error # ""
       THEN /\ pc' = "stopped"
            /\ shown' = [NothingShown EXCEPT !.error = result.error]
            /\ flow' = flow
       ELSE IF result.is_none
       THEN /\ pc' = "stopped"
            /\ shown' = [NothingShown EXCEPT
                           !.error = "Failed to fetch data. Please try again."]
            /\ flow' = flow
       ELSE \E show_gamma_flip \in BOOLEAN :
            LET total_gex == ColumnSum(result.df, "Net_GEX_B")
            IN  /\ pc' = "displayed"
                /\ shown' = [error |-> None,
                             total_gex |-> total_gex,
                             call_gex |-> ColumnSum(result.df, "Call_GEX"),
                             put_gex |-> ColumnSum(result.df, "Put_GEX"),
                             total_gex_delta |->
                                 IF total_gex > 0 THEN "Bullish" ELSE "Volatile",
                             gamma_flip_zones |->
                                 IF show_gamma_flip
                                 THEN detect_gamma_flip_zones(FALSE, result.df)
                                 ELSE <<>>]
                /\ flow' = calculate_dual_gex_dex_flow(FALSE, result.df,
                                                       result.futures_ltp)
    /\ UNCHANGED <<request, now, attempt, last_error, chain, result, table, zones,
                   bs_in, bs_out, flow_in, calls,
                   session, previous, tte_call>>

----------------------------------------------------------------------------
(* Inputs *)

\* Longest option chain (records per response) the provider sends.
MaxItems == 2

BoundedSeq(S, n) == UNION {[1..k -> S] : k \in 0..n}

Symbols == {"NIFTY", "BANKNIFTY", "FINNIFTY", "MIDCPNIFTY"}

ExpiryDates == <<"12-Nov-2026", "26-Nov-2026">>

Quote(oi, change, volume, iv, ltp) ==
    [openInterest |-> oi, changeinOpenInterest |-> change,
     totalTradedVolume |-> volume, impliedVolatility |-> iv, lastPrice |-> ltp]

FailureKinds ==
    {"session_fail", "http401", "http403", "http500", "bad_json", "api_error",
     "no_records", "records_not_dict", "raises"}

\* Responses whose records lack the price or the expiry list.
EmptyRecords ==
    {[kind |-> "ok", underlyingValue |-> 0, expiryDates |-> ExpiryDates,
      data |-> <<>>],
     [kind |-> "ok", underlyingValue |-> 12500, expiryDates |-> <<>>,
      data |-> <<>>]}

FailureResponses == {[kind |-> k] : k \in FailureKinds} \cup EmptyRecords

\* Records around a futures price of 12525 (spot 12500): two strikes equally
\* close to it, strikes at and just beyond the boundary of a range of 5
\* intervals of 25 (below), 50 and 100 (above), a zero strike and a record
\* of the other expiry.  Premiums differ by strike.
RangeStrikes == {0, 12375, 12400, 12500, 12550, 12775, 12800, 13025, 13050}

RangeItem(strike, expiry) ==
    [expiryDate |-> expiry, strikePrice |-> strike,
     CE |-> Quote(400, 100, 50, 1500, 40 + (13050 - strike) \div 25),
     PE |-> Quote(300, -50, 40, 1400, 30 + (strike - 12000) \div 25)]

RangeItems ==
    {RangeItem(k, ExpiryDates[1]) : k \in RangeStrikes}
    \cup {RangeItem(12500, ExpiryDates[2])}

RangeResponses ==
    {[kind |-> "http403"], [kind |-> "raises"]} \cup EmptyRecords
    \cup {[kind |-> "ok", underlyingValue |-> spot, expiryDates |-> ExpiryDates,
           data |-> d] : spot \in {12500}, d \in BoundedSeq(RangeItems, MaxItems)}

RangeRequests ==
    [symbol : Symbols, strikes_range : {5}, expiry_index : {0}]
    \cup {[symbol |-> "NIFTY", strikes_range |-> 6, expiry_index |-> 0],
          [symbol |-> "NIFTY", strikes_range |-> 5, expiry_index |-> 1]}

\* Quotes: no open interest (or no CE / PE entry at all), a build-up at
\* 15 % IV, an unwinding at 14 % IV and an unwinding at 0.03 % IV, where the
\* density of d1 underflows.
Quotes == {Quote(0, 0, 0, 0, 0), Quote(400, 100, 50, 1500, 80),
           Quote(300, -50, 40, 1400, 60), Quote(200, -150, 20, 3, 95)}

\* Records of the strike 12450 with every call quote against no put or a
\* build-up of puts, and of the strike 12500 with four pairs of quotes.
ExposureItems ==
    {[expiryDate |-> ExpiryDates[1], strikePrice |-> 12450, CE |-> ce, PE |-> pe] :
        ce \in Quotes, pe \in {Quote(0, 0, 0, 0, 0), Quote(400, 100, 50, 1500, 80)}}
    \cup {[expiryDate |-> ExpiryDates[1], strikePrice |-> 12500,
           CE |-> p[1], PE |-> p[2]] :
            p \in {<<Quote(0, 0, 0, 0, 0), Quote(0, 0, 0, 0, 0)>>,
                   <<Quote(400, 100, 50, 1500, 80), Quote(300, -50, 40, 1400, 60)>>,
                   <<Quote(200, -150, 20, 3, 95), Quote(400, 100, 50, 1500, 80)>>,
                   <<Quote(300, -50, 40, 1400, 60), Quote(200, -150, 20, 3, 95)>>}}

ExposureResponses ==
    {[kind |-> "http401"]}
    \cup {[kind |-> "ok", underlyingValue |-> 12500, expiryDates |-> ExpiryDates,
           data |-> d] : d \in BoundedSeq(ExposureItems, MaxItems)}

ExposureRequests ==
    [symbol : {"NIFTY", "MIDCPNIFTY"}, strikes_range : {5}, expiry_index : {0}]

Today == [day |-> 4, past_midnight |-> TRUE]

NoCall == [S |-> 0, K |-> 0, T |-> 0, r |-> 0, sigma |-> 0]

NoGreeks == [done |-> FALSE, gamma |-> 0, call_delta |-> 0, put_delta |-> 0]

----------------------------------------------------------------------------
(* The dashboard run on chains around the range boundary *)

\* A call of fetch_data on one of the requests at one of the times.
InitAt(requests, times) ==
    /\ request \in requests
    /\ now \in times
    /\ pc = "start"
    /\ attempt = 0
    /\ last_error = None
    /\ chain = NoChain
    /\ result = NoResult
    /\ shown = NothingShown
    /\ table = <<>>
    /\ zones = <<>>
    /\ bs_in = NoCall
    /\ bs_out = NoGreeks
    /\ flow_in = NoFlowCall
    /\ flow = NoFlow
    /\ calls = <<>>
    /\ session = 0
    /\ previous = NoPrevious
    /\ tte_call = NoExpiry

InitRun(requests) == InitAt(requests, {Today})

Init == InitRun(RangeRequests)

Fetch == \E resp \in RangeResponses : Attempt(resp)

Next == BeginFetch \/ FetchDataException \/ Fetch \/ MainAnalysis

Spec == Init /\ [][Next]_vars

(* The dashboard run on chains of varied open interest and volatility *)

InitExposure == InitRun(ExposureRequests)

FetchExposure == \E resp \in ExposureResponses : Attempt(resp)

NextExposure == BeginFetch \/ FetchDataException \/ FetchExposure \/ MainAnalysis

SpecExposure == InitExposure /\ [][NextExposure]_vars

(* fetch_and_calculate_gex_dex called directly on chains with malformed and
   repeated records *)

\* Records of a chain at spot 12500 (futures 12525, range 12275..12775 for
\* NIFTY and 5 intervals): two records sharing the strike 12500 with
\* different quotes, a second strike, a zero strike, a record without
\* strikePrice, one without CE and PE, one without expiryDate, a strike
\* outside the range, a record of the second expiry with a strike of its
\* own, a value that is no object,
\* and records with a string for the strike, the IV or the open interest or
\* a list for CE.
CallItems ==
    {RangeItem(12500, ExpiryDates[1]),
     [expiryDate |-> ExpiryDates[1], strikePrice |-> 12500,
      CE |-> Quote(200, -150, 20, 1600, 95), PE |-> Quote(100, 50, 10, 1300, 70)],
     RangeItem(12550, ExpiryDates[1]),
     RangeItem(12800, ExpiryDates[1]),
     RangeItem(0, ExpiryDates[1]),
     [expiryDate |-> ExpiryDates[1],
      CE |-> Quote(400, 100, 50, 1500, 80), PE |-> Quote(300, -50, 40, 1400, 60)],
     [expiryDate |-> ExpiryDates[1], strikePrice |-> 12450],
     [strikePrice |-> 12450,
      CE |-> Quote(400, 100, 50, 1500, 80), PE |-> Quote(300, -50, 40, 1400, 60)],
     RangeItem(12600, ExpiryDates[2]),
     [json |-> "str"],
     [expiryDate |-> ExpiryDates[1], strikePrice |-> NonNumeric,
      CE |-> Quote(400, 100, 50, 1500, 80), PE |-> Quote(300, -50, 40, 1400, 60)],
     [expiryDate |-> ExpiryDates[1], strikePrice |-> 12450,
      CE |-> Quote(400, 100, 50, NonNumeric, 80),
      PE |-> Quote(300, -50, 40, 1400, 60)],
     [expiryDate |-> ExpiryDates[1], strikePrice |-> 12450,
      CE |-> Quote(400, 100, 50, 1500, 80),
      PE |-> Quote(NonNumeric, -50, 40, 1400, 60)],
     [expiryDate |-> ExpiryDates[1], strikePrice |-> 12450,
      CE |-> [json |-> "list"], PE |-> Quote(300, -50, 40, 1400, 60)]}

CallResponses ==
    {[kind |-> "http500"]}
    \cup {[kind |-> "ok", underlyingValue |-> 12500, expiryDates |-> ExpiryDates,
           data |-> d] : d \in BoundedSeq(CallItems, MaxItems)}

\* expiry_index is any int for a caller of the method: inside the list,
\* at or beyond its length, and negative.
CallRequests ==
    [symbol : {"NIFTY"}, strikes_range : {5}, expiry_index : {-3, -1, 0, 2}]

InitCalls == InitRun(CallRequests)

FetchCalls == \E resp \in CallResponses : Attempt(resp)

NextCalls == BeginFetch \/ FetchCalls

SpecCalls == InitCalls /\ [][NextCalls]_vars

----------------------------------------------------------------------------
(* The retry loop under every kind of failure *)

\* Records inside the window, outside it for NIFTY, and one that is no
\* object, on which the loop raises.
RetryItems ==
    {RangeItem(12500, ExpiryDates[1]), RangeItem(12800, ExpiryDates[1]),
     [json |-> "str"]}

\* Every failure of the session, the request and the records, and chains
\* with no data, with no strike in the window, with a raising record, and
\* good ones.
RetryResponses ==
    FailureResponses
    \cup {[kind |-> "ok", underlyingValue |-> 12500, expiryDates |-> ExpiryDates,
           data |-> d] : d \in BoundedSeq(RetryItems, MaxItems)}

\* An expiry_index of -3 raises IndexError on the list of two dates.
RetryRequests ==
    [symbol : {"NIFTY", "BANKNIFTY"}, strikes_range : {5}, expiry_index : {-3, 0}]

InitRetry == InitRun(RetryRequests)

FetchRetry == \E resp \in RetryResponses : Attempt(resp)

NextRetry == BeginFetch \/ FetchRetry

\* Every step of the loop ends: the request has timeout=15 and the waits
\* between attempts are time.sleep calls of at most 6 seconds, so a call
\* that has begun, or has attempts left, takes its next step.
FairRetry == WF_vars(BeginFetch) /\ WF_vars(FetchRetry)

SpecRetry == InitRetry /\ [][NextRetry]_vars /\ FairRetry

----------------------------------------------------------------------------
(* Runs of fetch_and_calculate_gex_dex one after another, at different times *)

\* Most runs in a row.
MaxRuns == 2

\* datetime.now() at a run: in the course of 4-Nov and of 5-Nov, at
\* midnight of 12-Nov, the first expiry, and in the course of 13-Nov.
RunTimes ==
    {Today, [day |-> 5, past_midnight |-> TRUE],
     [day |-> 12, past_midnight |-> FALSE], [day |-> 13, past_midnight |-> TRUE]}

\* The provider's list of expiries: the usual one, one whose first date has
\* passed, and one in ISO format, which strptime does not parse.
RunExpiryLists ==
    {ExpiryDates, <<"29-Oct-2026", "12-Nov-2026">>, <<"2026-11-12", "26-Nov-2026">>}

\* The chains of the first expiry of a list: none, one and two records.
RunChains(dates) ==
    {[kind |-> "ok", underlyingValue |-> 12500, expiryDates |-> dates, data |-> d] :
        d \in {<<>>, <<RangeItem(12500, dates[1])>>,
               <<RangeItem(12500, dates[1]), RangeItem(12550, dates[1])>>}}

RunResponses ==
    {[kind |-> "http401"]} \cup UNION {RunChains(dates) : dates \in RunExpiryLists}

RunRequests == {[symbol |-> "NIFTY", strikes_range |-> 5, expiry_index |-> 0]}

InitRuns == InitAt(RunRequests, RunTimes)

FetchRuns == \E resp \in RunResponses : Attempt(resp)

\* Number of the run in progress or returned.
RunNumber == IF previous.done THEN previous.run + 1 ELSE 1

\* fetch_data is called again with the same arguments once its cache entry
\* has expired (ttl=60) or was cleared, at the same time of the clock or
\* later; what the run before returned is kept for comparison.
RunAgain ==
    /\ pc = "returned"
    /\ RunNumber < MaxRuns
    /\ previous' = [done |-> TRUE, run |-> RunNumber, chain |-> chain,
                    result |-> result]
    /\ \E t \in RunTimes :
           /\ \/ t.day > now.day
              \/ t.day = now.day /\ (now.past_midnight => t.past_midnight)
           /\ now' = t
    /\ pc' = "start"
    /\ chain' = NoChain
    /\ result' = NoResult
    /\ UNCHANGED <<request, attempt, last_error, shown, table, zones, bs_in, bs_out,
                   flow_in, flow, calls, session, tte_call>>

NextRuns == BeginFetch \/ FetchRuns \/ RunAgain

SpecRuns == InitRuns /\ [][NextRuns]_vars

----------------------------------------------------------------------------
(* detect_gamma_flip_zones called directly on a table *)

\* Most rows of a table handed to detect_gamma_flip_zones.
MaxRows == 3

FlipRows == [Strike : {100, 150, 200, 250}, Net_GEX_B : {-3, 0, 5}]

UniqueStrikes(t) == \A i, j \in 1..Len(t) : t[i].Strike = t[j].Strike => i = j

\* Tables of distinct strikes, in any row order.
FlipTables == {t \in BoundedSeq(FlipRows, MaxRows) : UniqueStrikes(t)}

IdleRequest == [symbol |-> "NIFTY", strikes_range |-> 12, expiry_index |-> 0]

InitTable(tables) ==
    /\ table \in tables
    /\ zones = <<>>
    /\ pc = "table"
    /\ request = IdleRequest
    /\ now = Today
    /\ attempt = 0
    /\ last_error = None
    /\ chain = NoChain
    /\ result = NoResult
    /\ shown = NothingShown
    /\ bs_in = NoCall
    /\ bs_out = NoGreeks
    /\ flow_in = NoFlowCall
    /\ flow = NoFlow
    /\ calls = <<>>
    /\ session = 0
    /\ previous = NoPrevious
    /\ tte_call = NoExpiry

DetectFlips ==
    /\ pc = "table"
    /\ pc' = "detected"
    /\ zones' = detect_gamma_flip_zones(FALSE, table)
    /\ UNCHANGED <<request, now, attempt, last_error, chain, result, shown, table,
                   bs_in, bs_out,
                   flow_in, flow, calls,
                   session, previous, tte_call>>

InitFlip == InitTable(FlipTables)

NextFlip == DetectFlips

SpecFlip == InitFlip /\ [][NextFlip]_vars

(* detect_gamma_flip_zones on rows of very unequal net GEX *)

\* A net GEX of 5000 next to one of 5: the smaller is lost in the weight's
\* last digit, as 1e-18 next to 2.0 is lost in a double's.
UnequalRows == [Strike : {100, 150, 200, 250}, Net_GEX_B : {-5000, 0, 5}]

UnequalTables == {t \in BoundedSeq(UnequalRows, MaxRows) : UniqueStrikes(t)}

InitUnequal == InitTable(UnequalTables)

SpecUnequal == InitUnequal /\ [][NextFlip]_vars

----------------------------------------------------------------------------
(* The analysis functions called directly, repeatedly, on one table *)

\* Most rows of a strike-ascending table handed to the analysis.
MaxFlowRows == 6

\* Most analysis calls made on one table.
MaxCalls == 3

\* (Net_GEX_B, Net_DEX_B) of a row: 25 and -25 billion, nothing, -25 and 50.
FlowValues == {<<25000, -25000>>, <<0, 0>>, <<-25000, 50000>>}

FlowRow(strike, v) == [Strike |-> strike, Net_GEX_B |-> v[1], Net_DEX_B |-> v[2]]

\* Tables of 0 .. MaxFlowRows rows at the strikes 12350, 12400, ... in
\* ascending order.
AscendingTables ==
    UNION {{[i \in 1..n |-> FlowRow(12300 + 50 * i, f[i])] :
               f \in [1..n -> FlowValues]} : n \in 0..MaxFlowRows}

\* Tables of one or two rows at the strikes 12500 and 12550 in any order,
\* the same strike twice included.
ShortTables ==
    LET rows == {FlowRow(k, v) : k \in {12500, 12550}, v \in FlowValues}
    IN  {<<a>> : a \in rows} \cup {<<a, b>> : a \in rows, b \in rows}

\* The table t without the column col.
WithoutColumn(t, col) ==
    [i \in 1..Len(t) |-> [c \in (DOMAIN t[i]) \ {col} |-> t[i][c]]]

MalformedTables ==
    {WithoutColumn(t, col) : t \in ShortTables,
                             col \in {"Strike", "Net_GEX_B", "Net_DEX_B"}}

FlowTables == AscendingTables \cup ShortTables \cup MalformedTables

InitFlow ==
    /\ table \in FlowTables
    /\ flow_in \in [df_is_none : BOOLEAN, futures_ltp : {12470000, 12520000}]
    /\ flow_in.df_is_none => table = <<>>
    /\ flow = NoFlow
    /\ zones = <<>>
    /\ calls = <<>>
    /\ session = 0
    /\ previous = NoPrevious
    /\ tte_call = NoExpiry
    /\ pc = "snapshot"
    /\ request = IdleRequest
    /\ now = Today
    /\ attempt = 0
    /\ last_error = None
    /\ chain = NoChain
    /\ result = NoResult
    /\ shown = NothingShown
    /\ bs_in = NoCall
    /\ bs_out = NoGreeks

\* calculate_dual_gex_dex_flow(table, futures_ltp); a KeyError propagates to
\* the caller.
AnalyzeFlow ==
    /\ pc = "snapshot"
    /\ Len(calls) < MaxCalls
    /\ calls' = Append(calls, "flow")
    /\ IF flow_raises(flow_in.df_is_none, table)
       THEN /\ pc' = "raised"
            /\ UNCHANGED <<flow, table>>
       ELSE /\ pc' = pc
            /\ flow' = calculate_dual_gex_dex_flow(flow_in.df_is_none, table,
                                                   flow_in.futures_ltp)
            /\ table' = df_after_flow(table)
    /\ UNCHANGED <<request, now, attempt, last_error, chain, result, shown, zones,
                   bs_in, bs_out, flow_in,
                   session, previous, tte_call>>

\* detect_gamma_flip_zones(table); a KeyError propagates to the caller.
DetectZones ==
    /\ pc = "snapshot"
    /\ Len(calls) < MaxCalls
    /\ calls' = Append(calls, "detect")
    /\ IF detect_raises(flow_in.df_is_none, table)
       THEN /\ pc' = "raised"
            /\ UNCHANGED <<zones, table>>
       ELSE /\ pc' = pc
            /\ zones' = detect_gamma_flip_zones(flow_in.df_is_none, table)
            /\ table' = df_after_detect(table)
    /\ UNCHANGED <<request, now, attempt, last_error, chain, result, shown, flow,
                   bs_in, bs_out, flow_in,
                   session, previous, tte_call>>

NextFlow == AnalyzeFlow \/ DetectZones

SpecFlow == InitFlow /\ [][NextFlow]_vars

----------------------------------------------------------------------------
(* BlackScholesCalculator called directly *)

GreekArgs ==
    [S : {-12525000, 0, 12525000},
     K : {-12500000, 0, 12500000, 12550000},
     T : {-2740, 0, 1000, 19178},
     r : {risk_free_rate},
     sigma : {-100, 0, 50, 1500}]

InitGreeks ==
    /\ bs_in \in GreekArgs
    /\ bs_out = NoGreeks
    /\ pc = "args"
    /\ request = IdleRequest
    /\ now = Today
    /\ attempt = 0
    /\ last_error = None
    /\ chain = NoChain
    /\ result = NoResult
    /\ shown = NothingShown
    /\ table = <<>>
    /\ zones = <<>>
    /\ flow_in = NoFlowCall
    /\ flow = NoFlow
    /\ calls = <<>>
    /\ session = 0
    /\ previous = NoPrevious
    /\ tte_call = NoExpiry

CallGreeks ==
    /\ pc = "args"
    /\ pc' = "computed"
    /\ bs_out' =
         [done |-> TRUE,
          gamma |-> calculate_gamma(bs_in.S, bs_in.K, bs_in.T, bs_in.r, bs_in.sigma),
          call_delta |->
              calculate_call_delta(bs_in.S, bs_in.K, bs_in.T, bs_in.r, bs_in.sigma),
          put_delta |->
              calculate_put_delta(bs_in.S, bs_in.K, bs_in.T, bs_in.r, bs_in.sigma)]
    /\ UNCHANGED <<request, now, attempt, last_error, chain, result, shown, table,
                   zones, bs_in,
                   flow_in, flow, calls,
                   session, previous, tte_call>>

NextGreeks == CallGreeks

SpecGreeks == InitGreeks /\ [][NextGreeks]_vars

----------------------------------------------------------------------------
(* Properties *)

Sign(x) == IF x > 0 THEN 1 ELSE IF x < 0 THEN -1 ELSE 0

Rows(df) == {df[i] : i \in 1..Len(df)}

\* fetch_and_calculate_gex_dex has returned from a successful attempt.
Succeeded == pc \in {"returned", "displayed"} /\ result.fetch_method = "NSE Live"

\* fetch_and_calculate_gex_dex has returned after max_retries failed attempts.
AllAttemptsFailed ==
    pc \in {"returned", "displayed", "stopped"} /\ ~result.is_none /\ result.df = <<>>

TableStrikes == {row.Strike : row \in Rows(result.df)}

\* The expiry the request selects from the chain's list.
SelectedExpiry == chain.expiryDates[request.expiry_index + 1]

\* Non-zero strikes of the records of the selected expiry in the chain.
EligibleStrikes ==
    {chain.data[i].strikePrice :
        i \in {j \in 1..Len(chain.data) :
                  /\ chain.data[j].expiryDate = SelectedExpiry
                  /\ chain.data[j].strikePrice # 0}}

\* |strike - reference_price| in 1/PriceScale.
Distance(strike) == Abs(strike * PriceScale - result.futures_ltp)

\* strikes_range strike intervals, in 1/PriceScale.
RangeWidth == request.strikes_range * strike_interval(request.symbol) * PriceScale

\* C1: a record of the selected expiry with a non-zero strike has a row in
\* the returned table if and only if |strike - reference_price| /
\* strike_interval <= strikes_range, the boundary included.
C1_RangeFilterInclusive ==
    Succeeded =>
        \A k \in EligibleStrikes : (k \in TableStrikes) <=> (Distance(k) <= RangeWidth)

\* A returned table holding a strike at distance exactly strikes_range
\* intervals, from a chain that also listed a strike farther away.
C1_Witness ==
    /\ Succeeded
    /\ \E k \in EligibleStrikes : Distance(k) = RangeWidth /\ k \in TableStrikes
    /\ \E k \in EligibleStrikes : Distance(k) > RangeWidth /\ k \notin TableStrikes

\* The error an attempt leaves when no strike is within the range.
EmptyRangeError == "No strikes found within range " \o ToString(request.strikes_range)

\* C2: when every strike of the selected expiry is outside the range, the
\* aggregation fails for that request: the call is over (no further
\* attempt) and it has not returned a default table with default ATM info.
C2_EmptyRangeFailsWithoutRetryOrDefault ==
    last_error = EmptyRangeError =>
        /\ pc # "fetching"
        /\ ~(result.df = <<>> /\ result.atm_info = default_atm_info
             /\ result.error = None /\ ~result.is_none)

\* C3: whenever fetch_and_calculate_gex_dex returns its all-attempts-failed
\* result, fetch_data reports an error and the dashboard does not go on to
\* compute and display totals from the empty table.
C3_FailedFetchStopsDashboard ==
    AllAttemptsFailed => result.error # None /\ pc # "displayed"

\* The strikes of the returned table closest to the reference price.
ClosestStrikes ==
    {k \in TableStrikes : \A m \in TableStrikes : Distance(k) <= Distance(m)}

\* C4: on success atm_strike minimizes |strike - reference_price| among the
\* returned strikes, and of two equally close strikes the lower one wins,
\* whatever the order of the provider's records.
C4_AtmIsLowestClosestStrike ==
    Succeeded =>
        /\ result.atm_info.atm_strike \in ClosestStrikes
        /\ \A k \in ClosestStrikes : result.atm_info.atm_strike <= k

\* Pairs of rows of the table that are adjacent in ascending strike order.
AdjacentPairs ==
    {p \in Rows(table) \X Rows(table) :
        /\ p[1].Strike < p[2].Strike
        /\ ~\E row \in Rows(table) : p[1].Strike < row.Strike /\ row.Strike < p[2].Strike}

StrictSignChange(a, b) == (a > 0 /\ b < 0) \/ (a < 0 /\ b > 0)

ZoneSet == {zones[i] : i \in 1..Len(zones)}

\* C5: a flip zone is reported for an adjacent pair of the strike-sorted
\* table if and only if the net GEX changes sign strictly (a zero on either
\* side gives no flip), once per pair, and its flip_type is
\* "Positive to Negative" exactly when the lower row's net GEX is positive.
C5_FlipIffStrictSignChange ==
    pc = "detected" =>
        /\ \A p \in AdjacentPairs :
              (\E z \in ZoneSet : z.lower_strike = p[1].Strike
                                  /\ z.upper_strike = p[2].Strike)
              <=> StrictSignChange(p[1].Net_GEX_B, p[2].Net_GEX_B)
        /\ \A z \in ZoneSet :
              \E p \in AdjacentPairs :
                  /\ z.lower_strike = p[1].Strike
                  /\ z.upper_strike = p[2].Strike
                  /\ (z.flip_type = "Positive to Negative") <=> (p[1].Net_GEX_B > 0)
                  /\ (z.flip_type = "Negative to Positive") <=> (p[1].Net_GEX_B <= 0)
        /\ Len(zones) =
              Cardinality({p \in AdjacentPairs :
                              StrictSignChange(p[1].Net_GEX_B, p[2].Net_GEX_B)})

\* A table, rows out of order, with a zero next to a non-zero row (no flip
\* there) and a strict sign change between the other two rows (one flip).
C5_Witness ==
    /\ pc = "detected"
    /\ Len(zones) = 1
    /\ table[1].Strike > table[2].Strike
    /\ \E p \in AdjacentPairs : p[1].Net_GEX_B = 0 /\ p[2].Net_GEX_B # 0

\* C6: every zone's flip_strike is lower + (upper - lower) * |g_i| /
\* (|g_i| + |g_i+1|), g being the net GEX of the two rows; the table
\* [100, +5], [150, -3] gives exactly one zone, 100 .. 150, flip at 131.25.
C6_FlipStrikeInterpolation ==
    pc = "detected" =>
        /\ \A z \in ZoneSet :
              \E p \in AdjacentPairs :
                  /\ z.lower_strike = p[1].Strike
                  /\ z.upper_strike = p[2].Strike
                  /\ z.flip_strike * (Abs(p[1].Net_GEX_B) + Abs(p[2].Net_GEX_B))
                     = z.lower_strike * FlipScale
                         * (Abs(p[1].Net_GEX_B) + Abs(p[2].Net_GEX_B))
                       + (z.upper_strike - z.lower_strike) * FlipScale
                         * Abs(p[1].Net_GEX_B)
        /\ Rows(table) = {[Strike |-> 100, Net_GEX_B |-> 5],
                          [Strike |-> 150, Net_GEX_B |-> -3]}
           => /\ Len(zones) = 1
              /\ zones[1].lower_strike = 100
              /\ zones[1].upper_strike = 150
              /\ zones[1].flip_strike * 100 = 13125 * FlipScale

\* The table [150, -3], [100, +5] (rows out of order) after detection.
C6_Witness ==
    /\ pc = "detected"
    /\ table = <<[Strike |-> 150, Net_GEX_B |-> -3], [Strike |-> 100, Net_GEX_B |-> 5]>>
    /\ Len(zones) = 1

\* max(|Net_GEX_B|) over the rows of the returned table.
LargestNetGex ==
    LET mags == {Abs(row.Net_GEX_B) : row \in Rows(result.df)}
    IN  CHOOSE m \in mags : \A n \in mags : n <= m

\* C7: in every table of a successful aggregation each row's
\* Hedging_Pressure is 100 * Net_GEX_B / max|Net_GEX_B| (to the percent),
\* lies in [-100, 100], and is exactly 0, with no division by zero, when
\* every row's net GEX is 0.
C7_HedgingPressureNormalized ==
    Succeeded =>
        \A row \in Rows(result.df) :
            /\ row.Hedging_Pressure # Undefined
            /\ -100 <= row.Hedging_Pressure /\ row.Hedging_Pressure <= 100
            /\ IF LargestNetGex = 0 THEN row.Hedging_Pressure = 0
               ELSE Abs(row.Hedging_Pressure * LargestNetGex - 100 * row.Net_GEX_B)
                        < LargestNetGex

\* A table whose largest row sits at -100 or 100 and another row strictly
\* inside the scale on the other side of zero.
C7_Witness ==
    /\ Succeeded
    /\ \E row \in Rows(result.df) : Abs(row.Hedging_Pressure) = 100
    /\ \E a, b \in Rows(result.df) :
          /\ a.Hedging_Pressure > 0 /\ b.Hedging_Pressure < 0
          /\ Abs(a.Hedging_Pressure) # Abs(b.Hedging_Pressure)

\* The signs of GEX against open interest, and of DEX against open interest
\* times delta (no flip beyond the delta's own sign), for one row.
ExposureSigns(row) ==
    /\ row.Call_OI >= 0 => row.Call_GEX >= 0
    /\ row.Put_OI >= 0 => row.Put_GEX <= 0
    /\ Sign(row.Call_DEX) \in {0, Sign(row.Call_OI) * Sign(row.Call_Delta)}
    /\ Sign(row.Put_DEX) \in {0, Sign(row.Put_OI) * Sign(row.Put_Delta)}
    /\ Sign(row.Call_Flow_DEX) \in {0, Sign(row.Call_OI_Change) * Sign(row.Call_Delta)}
    /\ Sign(row.Put_Flow_DEX) \in {0, Sign(row.Put_OI_Change) * Sign(row.Put_Delta)}

C9_NetIsSumAndBColumnsCopy ==
    \A row \in Rows(result.df) :
        /\ row.Net_GEX = row.Call_GEX + row.Put_GEX
        /\ row.Net_DEX = row.Call_DEX + row.Put_DEX
        /\ row.Net_Flow_GEX = row.Call_Flow_GEX + row.Put_Flow_GEX
        /\ row.Net_Flow_DEX = row.Call_Flow_DEX + row.Put_Flow_DEX
        /\ row.Call_GEX_B = row.Call_GEX /\ row.Put_GEX_B = row.Put_GEX
        /\ row.Net_GEX_B = row.Net_GEX
        /\ row.Call_DEX_B = row.Call_DEX /\ row.Put_DEX_B = row.Put_DEX
        /\ row.Net_DEX_B = row.Net_DEX
        /\ row.Call_Flow_GEX_B = row.Call_Flow_GEX
        /\ row.Put_Flow_GEX_B = row.Put_Flow_GEX
        /\ row.Net_Flow_GEX_B = row.Net_Flow_GEX
        /\ row.Call_Flow_DEX_B = row.Call_Flow_DEX
        /\ row.Put_Flow_DEX_B = row.Put_Flow_DEX
        /\ row.Net_Flow_DEX_B = row.Net_Flow_DEX

\* A returned table with a row whose call and put sides are all non-zero.
C9_Witness ==
    /\ Succeeded
    /\ \E row \in Rows(result.df) :
          /\ row.Call_GEX # 0 /\ row.Put_GEX # 0
          /\ row.Call_DEX # 0 /\ row.Put_DEX # 0
          /\ row.Call_Flow_GEX # 0 /\ row.Put_Flow_GEX # 0
          /\ row.Call_Flow_DEX # 0 /\ row.Put_Flow_DEX # 0
          /\ row.Net_GEX_B # row.Call_GEX

\* The arguments of the Greeks are degenerate.
Degenerate == bs_in.T <= 0 \/ bs_in.sigma <= 0 \/ bs_in.S <= 0 \/ bs_in.K <= 0

\* C10: for time-to-expiry <= 0, volatility <= 0, spot <= 0 or strike <= 0,
\* calculate_gamma, calculate_call_delta and calculate_put_delta each return
\* 0: no error, no undefined value.
C10_DegenerateGreeksAreZero ==
    (bs_out.done /\ Degenerate) =>
        /\ bs_out.gamma = 0
        /\ bs_out.call_delta = 0
        /\ bs_out.put_delta = 0

\* The Greeks of a zero spot at a positive strike, time and volatility.
C10_Witness ==
    /\ bs_out.done
    /\ bs_in.S = 0 /\ bs_in.K > 0 /\ bs_in.T > 0 /\ bs_in.sigma > 0
    /\ bs_out.gamma = 0 /\ bs_out.call_delta = 0 /\ bs_out.put_delta = 0

\* The table handed to the analysis has rows and the three columns read.
WellFormedTable ==
    /\ ~flow_in.df_is_none
    /\ Len(table) > 0
    /\ {"Strike", "Net_GEX_B", "Net_DEX_B"} \subseteq DOMAIN table[1]

FlowComputed == flow # NoFlow

Called(name) == \E i \in 1..Len(calls) : calls[i] = name

LastCall == calls[Len(calls)]

\* The strikes of the table, the first row of a strike, and the position of
\* a strike in ascending order.
StrikesOfTable == {table[i].Strike : i \in 1..Len(table)}

FirstRowOf(k) ==
    table[CHOOSE i \in 1..Len(table) :
              /\ table[i].Strike = k
              /\ \A j \in 1..(i - 1) : table[j].Strike # k]

Rank(k) == Cardinality({j \in StrikesOfTable : j <= k})

\* The strike adjacent to the reference price: the closest, the lower of two
\* equally close.
AdjacentStrike ==
    CHOOSE k \in StrikesOfTable :
        \A m \in StrikesOfTable :
            \/ Abs(k * PriceScale - flow_in.futures_ltp)
                   < Abs(m * PriceScale - flow_in.futures_ltp)
            \/ /\ Abs(k * PriceScale - flow_in.futures_ltp)
                      = Abs(m * PriceScale - flow_in.futures_ltp)
               /\ k <= m

\* The positional window: 5 strikes on each side of the adjacent strike.
NearWindow ==
    {k \in StrikesOfTable :
        Rank(k) >= Rank(AdjacentStrike) - 5 /\ Rank(k) <= Rank(AdjacentStrike) + 5}

\* C11 as claimed: gex_near_total is the plain net sum of Net_GEX_B over the
\* positional window of 5 strikes on each side of the strike adjacent to the
\* reference price, each row of the window counted once and no other row.
C11_GexNearTotalIsWindowSum ==
    (FlowComputed /\ WellFormedTable) =>
        flow.gex_near_total
            = Sum([k \in NearWindow |-> FirstRowOf(k).Net_GEX_B], NearWindow)

\* The strikes whose Net_GEX_B has the sign s, and the ways to take the 5 of
\* them (all when fewer) nearest in price to the reference price.
StrikesOfSign(s) == {k \in StrikesOfTable : Sign(FirstRowOf(k).Net_GEX_B) = s}

NearestAmong(S) ==
    {P \in SUBSET S :
        /\ Cardinality(P) = IF Cardinality(S) < 5 THEN Cardinality(S) ELSE 5
        /\ \A k \in P : \A m \in S \ P :
               Abs(k * PriceScale - flow_in.futures_ltp)
                   <= Abs(m * PriceScale - flow_in.futures_ltp)}

NearestSets(s) == UNION {NearestAmong(S) : S \in {StrikesOfSign(s)}}

GexSumOver(P) == Sum([k \in P |-> FirstRowOf(k).Net_GEX_B], P)

\* C11 amended: gex_near_total is the sum of Net_GEX_B over the 5 strikes of
\* positive Net_GEX_B nearest in price to the reference price plus the sum
\* over the 5 strikes of negative Net_GEX_B nearest to it (all of a sign
\* when there are fewer than 5), each strike counted once.
C11_GexNearTotalIsNearestOfEachSign ==
    (FlowComputed /\ WellFormedTable) =>
        \E P \in NearestSets(1), N \in NearestSets(-1) :
            /\ flow.gex_near_positive = GexSumOver(P)
            /\ flow.gex_near_negative = GexSumOver(N)
            /\ flow.gex_near_total = GexSumOver(P) + GexSumOver(N)

\* Flow metrics of a table with more than 5 strikes of negative Net_GEX_B:
\* the near total leaves the farthest out.
C11_Witness ==
    /\ FlowComputed /\ WellFormedTable
    /\ Cardinality(StrikesOfSign(-1)) > 5
    /\ flow.gex_near_total # flow.gex_total_all

BullishSidewaysLabels ==
    {"STRONG BULLISH (Sideways to Bullish)", "BULLISH (Sideways to Bullish)"}

HighVolatilityLabels == {"HIGH VOLATILITY (Strong)", "HIGH VOLATILITY"}

\* The (total, bias) pairs the GEX labelling was applied to.
GexLabelled ==
    {<<flow.gex_near_total, flow.gex_near_bias>>,
     <<flow.gex_total_all, flow.gex_total_bias>>}

C13_DexNearBiasTwoBands ==
    (FlowComputed /\ WellFormedTable) =>
        /\ (flow.dex_near_bias \in {"BULLISH", "Mild Bullish"})
               <=> (flow.dex_near_total > 0)
        /\ (flow.dex_near_bias \in {"BEARISH", "Mild Bearish"})
               <=> (flow.dex_near_total <= 0)

\* C13 amended: the DEX near bias of a non-empty table is bullish (BULLISH
\* above 50, Mild Bullish up to 50) exactly when dex_near_total is positive,
\* bearish (BEARISH below -50, Mild Bearish down to -50) exactly when it is
\* negative, and NEUTRAL exactly when it is 0.
C13_DexNearBiasNeutralAtZero ==
    (FlowComputed /\ WellFormedTable) =>
        /\ (flow.dex_near_bias = "BULLISH") <=> (flow.dex_near_total > 50 * ExpScale)
        /\ (flow.dex_near_bias = "Mild Bullish")
               <=> (flow.dex_near_total > 0 /\ flow.dex_near_total <= 50 * ExpScale)
        /\ (flow.dex_near_bias = "BEARISH") <=> (flow.dex_near_total < -50 * ExpScale)
        /\ (flow.dex_near_bias = "Mild Bearish")
               <=> (flow.dex_near_total < 0 /\ flow.dex_near_total >= -50 * ExpScale)
        /\ (flow.dex_near_bias = "NEUTRAL") <=> (flow.dex_near_total = 0)

\* Flow metrics whose DEX near total is 0 from rows that cancel, labelled
\* NEUTRAL.
C13_Witness ==
    /\ FlowComputed /\ WellFormedTable
    /\ flow.dex_near_total = 0
    /\ flow.dex_near_positive # 0
    /\ flow.dex_near_bias = "NEUTRAL"

\* C14: calculate_dual_gex_dex_flow never raises, and for None, a table of
\* zero rows or a table missing Net_GEX_B, Net_DEX_B or Strike it returns
\* the no-data result.
C14_FlowToleratesMalformedTable ==
    /\ ~(pc = "raised" /\ LastCall = "flow")
    /\ (FlowComputed /\ ~WellFormedTable) => flow = no_data_flow

\* C15: detect_gamma_flip_zones never raises, and for None or a table of
\* fewer than 2 rows it returns the empty list.
C15_DetectNeverFails ==
    /\ ~(pc = "raised" /\ LastCall = "detect")
    /\ (Called("detect") /\ Len(table) < 2) => zones = <<>>

RecordExceptions ==
    {"unsupported operand type(s) for -: 'str' and 'float'",
     "'list' object has no attribute 'get'",
     "'>' not supported between instances of 'str' and 'int'",
     "can't multiply sequence by non-int of type 'float'"}

\* The records of a chain that are objects.
Mappings(data) == {i \in 1..Len(data) : IsDict(data[i])}

\* A record with its expiry, a numeric strike and numeric CE and PE quotes.
WellFormedRecord(item) ==
    /\ {"expiryDate", "strikePrice", "CE", "PE"} \subseteq DOMAIN item
    /\ item.strikePrice # NonNumeric
    /\ \A side \in {item.CE, item.PE} :
           /\ IsDict(side)
           /\ DOMAIN side = QuoteKeys
           /\ \A k \in QuoteKeys : side[k] # NonNumeric

\* The expiry the attempt that returned the table selected.
ExpiryUsed == select_expiry(chain.expiryDates, request.expiry_index)

\* C16: a malformed record never aborts the processing of the chain (no
\* attempt ends on an exception raised by a record), and every well-formed
\* in-window record of the selected expiry has its row in a returned table.
C16_MalformedRecordIsSkipped ==
    /\ last_error \notin RecordExceptions
    /\ Succeeded =>
           \A i \in Mappings(chain.data) :
               (/\ WellFormedRecord(chain.data[i])
                /\ chain.data[i].expiryDate = ExpiryUsed
                /\ chain.data[i].strikePrice # 0
                /\ Distance(chain.data[i].strikePrice) <= RangeWidth)
               => chain.data[i].strikePrice \in TableStrikes

\* The first record of the selected expiry, in provider order, whose strike
\* is k.
FirstRecordOf(k) ==
    chain.data[CHOOSE i \in Mappings(chain.data) :
                   /\ Get(chain.data[i], "expiryDate", None) = ExpiryUsed
                   /\ Get(chain.data[i], "strikePrice", 0) = k
                   /\ \A j \in Mappings(chain.data) :
                          (/\ j < i
                           /\ Get(chain.data[j], "expiryDate", None) = ExpiryUsed)
                          => Get(chain.data[j], "strikePrice", 0) # k]

\* C17: the strikes of a returned table are unique and never 0 (a record
\* whose strike is 0 or absent gives no row), and the row of a strike holds
\* the quotes of the first record of the selected expiry with that strike.
C17_StrikesUniqueFirstSeenWins ==
    Succeeded =>
        /\ \A i, j \in 1..Len(result.df) :
               result.df[i].Strike = result.df[j].Strike => i = j
        /\ 0 \notin TableStrikes
        /\ \A row \in Rows(result.df) :
               LET ce == Fields(Get(FirstRecordOf(row.Strike), "CE", EmptyDict))
                   pe == Fields(Get(FirstRecordOf(row.Strike), "PE", EmptyDict))
               IN  /\ row.Call_OI = ce.openInterest
                   /\ row.Put_OI = pe.openInterest
                   /\ row.Call_LTP = ce.lastPrice
                   /\ row.Put_LTP = pe.lastPrice

\* A table returned for a chain of two records of the selected expiry that
\* share a strike and differ in open interest.
C17_Witness ==
    /\ Succeeded
    /\ Len(chain.data) = 2
    /\ \A i \in 1..2 : WellFormedRecord(chain.data[i])
    /\ chain.data[1].strikePrice = chain.data[2].strikePrice
    /\ chain.data[1].expiryDate = chain.data[2].expiryDate
    /\ chain.data[1].CE.openInterest # chain.data[2].CE.openInterest
    /\ Len(result.df) = 1
    /\ result.df[1].Call_OI = chain.data[1].CE.openInterest

\* The expiry the claim selects: expiry_dates[expiry_index] for an index
\* inside the list, the first date for every other index.
ClampedExpiry(expiry_dates) ==
    IF request.expiry_index >= 0 /\ request.expiry_index < Len(expiry_dates)
    THEN expiry_dates[request.expiry_index + 1]
    ELSE expiry_dates[1]

\* C18: the expiry is taken from the provider's list in its order, and an
\* expiry_index that is out of range for the list (at or beyond its length,
\* or negative) selects the first date: the call does not fail on the index,
\* and every row of a returned table comes from a record of that date.
C18_OutOfRangeIndexSelectsFirst ==
    /\ last_error # "list index out of range"
    /\ Succeeded =>
           \A k \in TableStrikes :
               \E i \in Mappings(chain.data) :
                   /\ Get(chain.data[i], "strikePrice", 0) = k
                   /\ Get(chain.data[i], "expiryDate", None)
                          = ClampedExpiry(chain.expiryDates)

\* C19: in every row of a returned table the call and the put volatility
\* handed to the Greeks are at least 0.01.
C19_VolatilityFloor ==
    Succeeded =>
        \A row \in Rows(result.df) :
            /\ iv_decimal(row.Call_IV) >= SigmaScale \div 100
            /\ iv_decimal(row.Put_IV) >= SigmaScale \div 100

\* Zones in strictly ascending order of lower_strike, at most rows - 1 of
\* them, each on a pair of consecutive strikes of the strike-sorted table.
ZonesOnAscendingPairs ==
    /\ \A i, j \in 1..Len(zones) : i < j => zones[i].lower_strike < zones[j].lower_strike
    /\ Len(table) >= 1 => Len(zones) <= Len(table) - 1
    /\ \A z \in ZoneSet :
           /\ z.lower_strike < z.upper_strike
           /\ \E p \in AdjacentPairs :
                  z.lower_strike = p[1].Strike /\ z.upper_strike = p[2].Strike

C24_AtmComesFromARow ==
    Succeeded =>
        /\ Distance(result.atm_info.atm_strike) <= RangeWidth
        /\ \E row \in Rows(result.df) :
               /\ row.Strike = result.atm_info.atm_strike
               /\ row.Call_LTP = result.atm_info.atm_call_premium
               /\ row.Put_LTP = result.atm_info.atm_put_premium
               /\ result.atm_info.atm_straddle_premium = row.Call_LTP + row.Put_LTP

\* A table returned for two records that share the strike and differ in
\* their premiums: the ATM premiums are those of the first.
C24_Witness ==
    /\ Succeeded
    /\ Len(chain.data) = 2
    /\ \A i \in 1..2 : WellFormedRecord(chain.data[i])
    /\ chain.data[1].strikePrice = chain.data[2].strikePrice
    /\ chain.data[1].expiryDate = chain.data[2].expiryDate
    /\ chain.data[1].CE.lastPrice # chain.data[2].CE.lastPrice
    /\ result.atm_info.atm_call_premium = chain.data[1].CE.lastPrice
    /\ result.atm_info.atm_straddle_premium
           = chain.data[1].CE.lastPrice + chain.data[1].PE.lastPrice

----------------------------------------------------------------------------
(* The retry loop *)

Returned == pc = "returned"

\* C22: whatever failures occur, fetch_and_calculate_gex_dex makes at most
\* max_retries = 3 attempts, every attempt begins with a newly created
\* session, no attempt follows the one that returned (the first success or
\* the third failure), and the call always comes to its return.
C22_BoundedRetry ==
    /\ [](attempt <= max_retries)
    /\ [][attempt' = attempt + 1 => session' = session + 1]_vars
    /\ [][Returned => attempt' = attempt /\ result' = result]_vars
    /\ [](Returned /\ result.fetch_method # "NSE Live" => attempt = max_retries)
    /\ <>Returned

\* Three failed attempts, each on a session of its own (the constructor
\* made the first of the four), ended in the return of the default tuple.
C22_Witness ==
    /\ Returned
    /\ attempt = max_retries
    /\ session = max_retries + 1
    /\ result.fetch_method = "Error: Invalid JSON response from NSE API"

\* C23: a returned result is either "NSE Live" with at least one row and a
\* positive price, or "Error: " followed by the failure of the last attempt
\* with no rows, price 0 and every ATM field 0; both carry the same columns,
\* those of _get_empty_dataframe.
C23_TwoShapes ==
    Returned =>
        /\ result.columns = get_empty_dataframe.columns
        /\ \/ /\ result.fetch_method = "NSE Live"
              /\ Len(result.df) >= 1
              /\ result.futures_ltp > 0
           \/ /\ result.fetch_method = "Error: " \o last_error
              /\ last_error # None
              /\ Len(result.df) = 0
              /\ result.futures_ltp = 0
              /\ \A f \in DOMAIN result.atm_info : result.atm_info[f] = 0
              /\ DOMAIN result.atm_info =
                     {"atm_strike", "atm_call_premium", "atm_put_premium",
                      "atm_straddle_premium"}

\* The third attempt, like the second, found no strike in the window after
\* the first was refused.
C23_Witness ==
    /\ Returned
    /\ attempt = max_retries
    /\ result.fetch_method = "Error: No strikes found within range 5"
    /\ Len(result.df) = 0

----------------------------------------------------------------------------
(* Repeated runs and the time to expiry *)

\* Two runs have returned tables for the same payload.
SamePayloadTwice ==
    /\ previous.done
    /\ Returned
    /\ result.fetch_method = "NSE Live"
    /\ previous.result.fetch_method = "NSE Live"
    /\ previous.chain = chain

\* C21: two runs of fetch_and_calculate_gex_dex with the same arguments that
\* receive the same chain payload return the same table and the same ATM
\* info, whenever each of them happens.
C21_Deterministic ==
    SamePayloadTwice =>
        /\ result.df = previous.result.df
        /\ result.atm_info = previous.result.atm_info

\* C26: calculate_time_to_expiry returns at least 0.001 years: exactly 0.001
\* for an expiry date of today or before, and 7/365 with 7 days for a string
\* that is no date; this is the value the aggregator hands to the Greeks.
C26_TimeToExpiryFloor ==
    tte_call # NoExpiry =>
        /\ tte_call.time_to_expiry >= TimeScale \div 1000
        /\ tte_call.time_to_expiry > 0
        /\ strptime(tte_call.date) = Raised =>
               /\ tte_call.time_to_expiry = (7 * TimeScale) \div 365
               /\ tte_call.days_to_expiry = 7
        /\ strptime(tte_call.date) # Raised
               /\ strptime(tte_call.date) <= tte_call.today.day =>
               tte_call.time_to_expiry = TimeScale \div 1000

\* A run on 13-Nov selected the expiry of 12-Nov and returned a table.
C26_Witness ==
    /\ Returned
    /\ result.fetch_method = "NSE Live"
    /\ tte_call # NoExpiry
    /\ tte_call.date = "12-Nov-2026"
    /\ tte_call.today.day = 13
    /\ tte_call.days_to_expiry < 0
    /\ tte_call.time_to_expiry = TimeScale \div 1000

====
